---------------------------- MODULE Spec2Model ----------------------------
(***************************************************************************)
(* A model of md_click (src/md_click/main.py): the docstring normalizer,   *)
(* the tree walker, the option formatter, the document renderer and the    *)
(* `dumps` driver.                                                         *)
(*                                                                         *)
(* Text is a sequence of one-character strings. A document is the sequence *)
(* of the pieces the template substitutes.                                 *)
(***************************************************************************)
EXTENDS Integers, Sequences, FiniteSets, TLC

VARIABLES
    pc,         \* control location of the run / of the normalizer driver
    data,       \* the text handed to trim_docstring
    res,        \* outcome of trim_docstring(data)
    res2,       \* outcome of trim_docstring applied to res
    cmds,       \* the command objects of the tree, by node; node 1 is the root
    commands,   \* per node, its sub-commands in declared order
    stack,      \* the frames of the recursive_help generator, outermost first
    yielded,    \* the descriptors the generator has yielded so far
    resolve,    \* what the lookup of the root command meets: "ok", "nomodule", "noattr"
    cur,        \* helpdct of the loop iteration under way
    doc,        \* md_template of the loop iteration under way
    dirExists,  \* docs_path.exists()
    files,      \* the files of the destination directory: name -> content
    out,        \* the lines printed by click.echo / click.secho
    raised,     \* the exception that left dumps, "none" when there is none
    written,    \* the nodes whose file this run has written in full, in order
    fs0         \* the destination as the run found it (never changes)

trimVars == <<data, res, res2>>
treeVars == <<cmds, commands>>
genVars == <<stack, yielded>>
fsVars == <<dirExists, files>>
runVars == <<resolve, cur, doc, dirExists, files, out, raised, written, fs0>>

vars == <<pc, trimVars, treeVars, genVars, runVars>>

-----------------------------------------------------------------------------
(* Bounds *)

\* longest description text explored by the normalizer specification
MaxLen == 5

\* most nodes of a command tree explored by the walker specification
MaxWalkNodes == 4

\* most nodes of a command tree explored by the specification of a run
MaxNodes == 3

-----------------------------------------------------------------------------
(* Text *)

\* the characters of a description: space, tab, a visible character, newline
Chars == {" ", "\t", "x", "\n"}

\* lambda x: x == ' ' or x == '\t'
IsIndentChar(c) == c = " " \/ c = "\t"

RECURSIVE SeqsUpTo(_, _)
SeqsUpTo(S, n) ==
    IF n = 0 THEN {<<>>}
    ELSE LET shorter == SeqsUpTo(S, n - 1)
         IN  shorter \cup {Append(s, c) : s \in {t \in shorter : Len(t) = n - 1}, c \in S}

Texts == SeqsUpTo(Chars, MaxLen)

Tail2(s, i) == SubSeq(s, i, Len(s))

\* position of the first newline of s, 0 when there is none
FirstNewline(s) ==
    IF \E i \in 1..Len(s) : s[i] = "\n"
    THEN CHOOSE i \in 1..Len(s) : s[i] = "\n" /\ \A j \in 1..(i - 1) : s[j] # "\n"
    ELSE 0

\* str.splitlines(): the lines without their terminators; a trailing
\* terminator opens no further line, the empty text has no line
RECURSIVE splitlines(_)
splitlines(s) ==
    IF s = <<>> THEN <<>>
    ELSE LET i == FirstNewline(s)
         IN  IF i = 0 THEN <<s>>
             ELSE <<SubSeq(s, 1, i - 1)>> \o splitlines(Tail2(s, i + 1))

\* sep.join(lines)
RECURSIVE joinWith(_, _)
joinWith(sep, lines) ==
    IF lines = <<>> THEN <<>>
    ELSE IF Len(lines) = 1 THEN lines[1]
    ELSE lines[1] \o <<sep>> \o joinWith(sep, Tail(lines))

\* '\n'.join(lines)
join(lines) == joinWith("\n", lines)

\* empty(x): x == ""
empty(x) == x = <<>>

\* itertools.dropwhile(empty, lines)
RECURSIVE dropwhile_empty(_)
dropwhile_empty(lines) ==
    IF lines = <<>> THEN <<>>
    ELSE IF empty(lines[1]) THEN dropwhile_empty(Tail(lines))
    ELSE lines

reversed(s) == [i \in 1..Len(s) |-> s[Len(s) + 1 - i]]

trim_empty_lines(d) ==
    join(reversed(dropwhile_empty(reversed(dropwhile_empty(splitlines(d))))))

\* len(list(itertools.takewhile(lambda x: x == ' ' or x == '\t', line)))
RECURSIVE indentation(_)
indentation(line) ==
    IF line = <<>> THEN 0
    ELSE IF IsIndentChar(line[1]) THEN 1 + indentation(Tail(line))
    ELSE 0

\* line[n:]
SliceFrom(line, n) == IF n >= Len(line) THEN <<>> ELSE SubSeq(line, n + 1, Len(line))

Min(S) == CHOOSE m \in S : \A k \in S : m <= k

\* the indentations the minimum is taken over: one per line that is not ""
IndentsOf(lines) == {indentation(lines[i]) : i \in {j \in 1..Len(lines) : lines[j] # <<>>}}

Returned(v) == [ok |-> TRUE, val |-> v, err |-> "none"]
Raised(e) == [ok |-> FALSE, val |-> <<>>, err |-> e]
NotRun == [ok |-> FALSE, val |-> <<>>, err |-> "notrun"]

\* min([...]) of an empty list raises ValueError
trim_docstring(d) ==
    LET lines == splitlines(trim_empty_lines(d))
    IN  IF IndentsOf(lines) = {} THEN Raised("ValueError")
        ELSE LET common_indentation == Min(IndentsOf(lines))
             IN  Returned(join([i \in 1..Len(lines) |->
                                   SliceFrom(lines[i], common_indentation)]))

-----------------------------------------------------------------------------
(* Command trees *)

\* command names: sequences of characters
NameF == <<"F">>
Namef == <<"f">>
NameGH == <<"g", " ", "H">>
Namegh == <<"g", "-", "h">>
NameK == <<"k">>

InsertAt(s, k, e) == SubSeq(s, 1, k) \o <<e>> \o SubSeq(s, k + 1, Len(s))

\* the sub-command mappings of the trees with n nodes: node n is added to
\* a tree of n - 1 nodes under any parent, at any place of its declared order
RECURSIVE Shapes(_)
Shapes(n) ==
    IF n = 1 THEN {<< <<>> >>}
    ELSE UNION {UNION {{Append([ch EXCEPT ![p] = InsertAt(ch[p], k, n)], <<>>) :
                            k \in 0..Len(ch[p])} :
                       p \in 1..(n - 1)} :
                ch \in Shapes(n - 1)}

Nodes == DOMAIN commands

\* the node whose sub-command mapping holds i; 0 for the root
ParentOf(i) ==
    IF \E p \in Nodes : \E k \in 1..Len(commands[p]) : commands[p][k] = i
    THEN CHOOSE p \in Nodes : \E k \in 1..Len(commands[p]) : commands[p][k] = i
    ELSE 0

-----------------------------------------------------------------------------
(* recursive_help: a generator, one frame per active call *)

\* the frame of a call recursive_help(cmd, parent) that has not run yet
Frame(node) == [node |-> node, started |-> FALSE, k |-> 0]

\* ctx.command_path of the innermost frame: the info names from the root down
RECURSIVE CommandPath(_)
CommandPath(st) ==
    IF st = <<>> THEN <<>>
    ELSE IF Len(st) = 1 THEN cmds[st[1].node].name
    ELSE CommandPath(SubSeq(st, 1, Len(st) - 1)) \o <<" ">> \o cmds[st[Len(st)].node].name

\* the dict yielded by the innermost frame of st; its "help" and "options"
\* entries (cmd.get_help, cmd.collect_usage_pieces) reach no document and
\* are left out; the usage line is the command path between fixed pieces
helpdct(st) ==
    LET top == st[Len(st)]
    IN  [command |-> top.node,
         parent  |-> IF Len(st) > 1 THEN cmds[st[Len(st) - 1].node].name ELSE <<>>,
         usage   |-> <<"Usage: ">> \o CommandPath(st) \o <<" [OPTIONS]">>,
         params  |-> cmds[top.node].params]

\* no dict: the loop variable before the first iteration
NoDct == [command |-> 0, parent |-> <<>>, usage |-> <<>>, params |-> <<>>]

StopIteration == [stop |-> TRUE, stack |-> <<>>, value |-> NoDct]

\* recursive_help that yields the sub-commands of the root without
\* descending into theirs
RECURSIVE recursive_help_flat(_)
recursive_help_flat(st) ==
    IF st = <<>> THEN StopIteration
    ELSE LET n   == Len(st)
             top == st[n]
         IN  IF ~top.started
             THEN LET st1 == [st EXCEPT ![n].started = TRUE]
                  IN  [stop |-> FALSE, stack |-> st1, value |-> helpdct(st1)]
             ELSE IF n = 1 /\ top.k < Len(commands[top.node])
             THEN recursive_help_flat(Append([st EXCEPT ![n].k = top.k + 1],
                                             Frame(commands[top.node][top.k + 1])))
             ELSE recursive_help_flat(SubSeq(st, 1, n - 1))

\* recursive_help with the sub-commands taken last first
RECURSIVE recursive_help_reversed(_)
recursive_help_reversed(st) ==
    IF st = <<>> THEN StopIteration
    ELSE LET n   == Len(st)
             top == st[n]
         IN  IF ~top.started
             THEN LET st1 == [st EXCEPT ![n].started = TRUE]
                  IN  [stop |-> FALSE, stack |-> st1, value |-> helpdct(st1)]
             ELSE IF top.k < Len(commands[top.node])
             THEN recursive_help_reversed(
                      Append([st EXCEPT ![n].k = top.k + 1],
                             Frame(commands[top.node][Len(commands[top.node]) - top.k])))
             ELSE recursive_help_reversed(SubSeq(st, 1, n - 1))

\* next(generator): run the frames up to the next yield
RECURSIVE recursive_help(_)
recursive_help(st) ==
    IF st = <<>> THEN StopIteration
    ELSE LET n   == Len(st)
             top == st[n]
         IN  IF ~top.started
             THEN LET st1 == [st EXCEPT ![n].started = TRUE]
                  IN  [stop |-> FALSE, stack |-> st1, value |-> helpdct(st1)]
             ELSE IF top.k < Len(commands[top.node])
             THEN recursive_help(Append([st EXCEPT ![n].k = top.k + 1],
                                        Frame(commands[top.node][top.k + 1])))
             ELSE recursive_help(SubSeq(st, 1, n - 1))

-----------------------------------------------------------------------------
(* Options and the document *)

\* None
None == "None"

\* os.getcwd()
Cwd == "/work"

\* the dict dump_helper keeps of one declared parameter
OptionDict(opt) ==
    [usage    |-> joinWith("\n", [i \in 1..Len(opt.opts) |-> <<opt.opts[i]>>]),
     required |-> opt.required,
     default  |-> opt.default,
     help     |-> opt.help]

\* d[key] = val on an insertion-ordered dict: a key already present keeps
\* its place and takes the new value
DictPut(d, key, val) ==
    IF \E i \in 1..Len(d) : d[i].key = key
    THEN [i \in 1..Len(d) |-> IF d[i].key = key THEN [key |-> key, val |-> val] ELSE d[i]]
    ELSE Append(d, [key |-> key, val |-> val])

\* {opt.name: {...} for opt in params}
RECURSIVE options_dict(_)
options_dict(params) ==
    IF params = <<>> THEN <<>>
    ELSE LET opt == params[Len(params)]
         IN  DictPut(options_dict(SubSeq(params, 1, Len(params) - 1)),
                     opt.name, OptionDict(opt))

\* (the backquote of the markdown is written ' in the pieces below)
format_option(opt) ==
    LET usage == joinWith(", ", splitlines(opt.usage))
        required == IF opt.required THEN <<" (REQUIRED)">> ELSE <<>>
        default_value == IF opt.default = Cwd THEN "<current directory>" ELSE opt.default
        help == IF opt.help = None THEN <<>> ELSE <<opt.help>>
        line == <<"* '">> \o usage \o <<"'">> \o required \o <<": ">> \o help \o <<"\n">>
    IN  IF default_value # None
        THEN line \o <<"  * Default value: '", default_value, "'\n">>
        ELSE line

\* "".join([format_option(opt) for _, opt in options.items()])
RECURSIVE options_text(_)
options_text(options) ==
    IF options = <<>> THEN <<>>
    ELSE format_option(options[1].val) \o options_text(Tail(options))

\* md_base_template.format(...)
md_base_template(command_name, description, usage, options) ==
    <<"# ">> \o command_name \o <<"\n\n">> \o description
        \o <<"\n\n**Usage:** '">> \o usage \o <<"'\n\n**Options:**\n\n">>
        \o options \o <<"\n\n">>

\* str.lower() of one character
Lower(c) ==
    CASE c = "F" -> "f"
      [] c = "G" -> "g"
      [] c = "H" -> "h"
      [] c = "K" -> "k"
      [] OTHER -> c

\* the file name without the .lower()
md_file_name_nolower(name) ==
    Append([i \in 1..Len(name) |-> IF name[i] = " " THEN "-" ELSE name[i]], ".md")

\* command.name.replace(' ', '-').lower() + '.md'
md_file_name(name) ==
    Append([i \in 1..Len(name) |-> Lower(IF name[i] = " " THEN "-" ELSE name[i])], ".md")

-----------------------------------------------------------------------------
(* The normalizer on its own: trim_docstring applied to a text, then to    *)
(* its own output.                                                         *)

InitTrim ==
    /\ pc = "trim"
    /\ data \in Texts
    /\ res = NotRun
    /\ res2 = NotRun
    /\ cmds = <<>>
    /\ commands = <<>>
    /\ stack = <<>>
    /\ yielded = <<>>
    /\ resolve = "ok"
    /\ cur = NoDct
    /\ doc = <<>>
    /\ dirExists = FALSE
    /\ files = <<>>
    /\ out = <<>>
    /\ raised = "none"
    /\ written = <<>>
    /\ fs0 = [dirExists |-> dirExists, files |-> files]

TrimOnce ==
    /\ pc = "trim"
    /\ res' = trim_docstring(data)
    /\ pc' = IF res'.ok THEN "again" ELSE "failed"
    /\ UNCHANGED <<data, res2, treeVars, genVars, runVars>>

TrimAgain ==
    /\ pc = "again"
    /\ res2' = trim_docstring(res.val)
    /\ pc' = "trimmed"
    /\ UNCHANGED <<data, res, treeVars, genVars, runVars>>

NextTrim == TrimOnce \/ TrimAgain

SpecTrim == InitTrim /\ [][NextTrim]_vars

-----------------------------------------------------------------------------
(* The walker on its own: the generator is drained, one next() at a time.  *)

\* a command object that differs from another only in its name
Named(name) == [name |-> name, help |-> <<"x">>, params |-> <<>>]

WalkNames == {NameF, Namef}

InitWalk ==
    /\ pc = "walk"
    /\ \E n \in 1..MaxWalkNodes :
          /\ commands \in Shapes(n)
          /\ cmds \in [1..n -> {Named(nm) : nm \in WalkNames}]
    /\ stack = <<Frame(1)>>
    /\ yielded = <<>>
    /\ data = <<>>
    /\ res = NotRun
    /\ res2 = NotRun
    /\ resolve = "ok"
    /\ cur = NoDct
    /\ doc = <<>>
    /\ dirExists = FALSE
    /\ files = <<>>
    /\ out = <<>>
    /\ raised = "none"
    /\ written = <<>>
    /\ fs0 = [dirExists |-> dirExists, files |-> files]

WalkNext ==
    /\ pc = "walk"
    /\ ~recursive_help(stack).stop
    /\ stack' = recursive_help(stack).stack
    /\ yielded' = Append(yielded, recursive_help(stack).value)
    /\ UNCHANGED <<pc, trimVars, treeVars, runVars>>

WalkStop ==
    /\ pc = "walk"
    /\ recursive_help(stack).stop
    /\ stack' = <<>>
    /\ pc' = "exhausted"
    /\ UNCHANGED <<trimVars, treeVars, yielded, runVars>>

NextWalk == WalkNext \/ WalkStop

SpecWalk == InitWalk /\ [][NextWalk]_vars

-----------------------------------------------------------------------------
(* A run of `dumps` *)

HelpOpt == [name |-> "help", opts |-> <<"--help">>, required |-> FALSE,
            default |-> "False", help |-> "Show this message and exit."]
NameOpt == [name |-> "name", opts |-> <<"--name", "-n">>, required |-> TRUE,
            default |-> None, help |-> None]
DirOpt == [name |-> "dir", opts |-> <<"--dir">>, required |-> FALSE,
           default |-> Cwd, help |-> "Working directory"]
UpperOpt == [name |-> "transformation", opts |-> <<"--upper">>, required |-> FALSE,
             default |-> None, help |-> "Upper case"]
LowerOpt == [name |-> "transformation", opts |-> <<"--lower">>, required |-> FALSE,
             default |-> None, help |-> "Lower case"]

\* the command objects a tree is built of
Commands ==
    {[name |-> NameF,  help |-> <<"x">>, params |-> <<HelpOpt>>],
     [name |-> Namef,  help |-> <<"\n", " ", " ", "x", "\n">>, params |-> <<NameOpt, HelpOpt>>],
     [name |-> NameGH, help |-> <<" ", "x", "\n", " ", "\t", "x">>,
                       params |-> <<UpperOpt, LowerOpt, HelpOpt>>],
     [name |-> Namegh, help |-> <<" ", "\n", "\t">>, params |-> <<DirOpt>>],
     [name |-> NameK,  help |-> <<"x", "\n", " ", "\n">>, params |-> <<>>],
     [name |-> NameK,  help |-> <<>>, params |-> <<HelpOpt>>],
     [name |-> NameF,  help |-> <<"\n", "\n">>, params |-> <<>>]}

\* a group's commands are keyed by name: no two sub-commands of one group
\* have the same name
SiblingsDiffer(cs, ch) ==
    \A p \in DOMAIN ch : \A i, j \in 1..Len(ch[p]) :
        i # j => cs[ch[p][i]].name # cs[ch[p][j]].name

\* a file some earlier run left in the destination
OldFile == <<"old">>

Init ==
    /\ pc = "import"
    /\ resolve \in {"ok", "nomodule", "noattr"}
    /\ IF resolve = "ok"
       THEN \E n \in 1..MaxNodes :
                /\ commands \in Shapes(n)
                /\ cmds \in [1..n -> Commands]
                /\ SiblingsDiffer(cmds, commands)
       ELSE cmds = <<>> /\ commands = <<>>
    /\ dirExists \in BOOLEAN
    /\ files \in (IF dirExists THEN {<<>>, md_file_name(Namef) :> OldFile} ELSE {<<>>})
    /\ stack = <<>>
    /\ yielded = <<>>
    /\ cur = NoDct
    /\ doc = <<>>
    /\ out = <<>>
    /\ raised = "none"
    /\ written = <<>>
    /\ fs0 = [dirExists |-> dirExists, files |-> files]
    /\ data = <<>>
    /\ res = NotRun
    /\ res2 = NotRun

\* the handler without its `raise`
Fail_swallow(e) ==
    /\ out' = Append(out, <<"Dumps command failed", e>>)
    /\ raised' = "none"
    /\ pc' = "returned"

\* except Exception as e: click.secho(f'Dumps command failed: {str(e)}'); raise
Fail(e) ==
    /\ out' = Append(out, <<"Dumps command failed", e>>)
    /\ raised' = e
    /\ pc' = "raised"

\* the first handler without its `return`
ImportModule_noreturn ==
    /\ pc = "import"
    /\ IF resolve = "nomodule"
       THEN out' = out \o << <<"Creating a new documents">>, <<"Could not find module">> >>
       ELSE out' = Append(out, <<"Creating a new documents">>)
    /\ pc' = "getattr"
    /\ UNCHANGED <<trimVars, treeVars, genVars, resolve, cur, doc, fsVars, raised, written, fs0>>

\* dumps, up to importlib.import_module
ImportModule ==
    /\ pc = "import"
    /\ IF resolve = "nomodule"
       THEN /\ out' = out \o << <<"Creating a new documents">>, <<"Could not find module">> >>
            /\ pc' = "returned"
       ELSE /\ out' = Append(out, <<"Creating a new documents">>)
            /\ pc' = "getattr"
    /\ UNCHANGED <<trimVars, treeVars, genVars, resolve, cur, doc, fsVars, raised, written, fs0>>

\* getattr(module_, base_command), then the call of dump_helper
GetCommand ==
    /\ pc = "getattr"
    /\ IF resolve = "noattr"
       THEN /\ out' = Append(out, <<"Could not find command">>)
            /\ pc' = "returned"
            /\ UNCHANGED stack
       ELSE /\ stack' = <<Frame(1)>>
            /\ pc' = "next"
            /\ UNCHANGED out
    /\ UNCHANGED <<trimVars, treeVars, yielded, resolve, cur, doc, fsVars, raised, written, fs0>>

\* for helpdct in recursive_help(base_command): the next descriptor, or the
\* end of dump_helper and the return of dumps
NextNode ==
    /\ pc = "next"
    /\ LET g == recursive_help(stack)
       IN  IF g.stop
           THEN /\ out' = Append(out, <<"Created docs">>)
                /\ pc' = "returned"
                /\ stack' = <<>>
                /\ UNCHANGED <<cur, yielded>>
           ELSE /\ stack' = g.stack
                /\ cur' = g.value
                /\ yielded' = Append(yielded, g.value)
                /\ pc' = "render"
                /\ UNCHANGED out
    /\ UNCHANGED <<trimVars, treeVars, resolve, doc, fsVars, raised, written, fs0>>

\* the options dict and md_base_template.format(...)
Render ==
    /\ pc = "render"
    /\ LET command == cmds[cur.command]
           options == options_dict(cur.params)
           description == trim_docstring(command.help)
       IN  IF description.ok
           THEN /\ doc' = md_base_template(command.name, description.val, cur.usage,
                                           options_text(options))
                /\ pc' = "exists"
                /\ UNCHANGED <<out, raised>>
           ELSE /\ Fail(description.err)
                /\ UNCHANGED doc
    /\ UNCHANGED <<trimVars, treeVars, genVars, resolve, cur, fsVars, written, fs0>>

\* the directory check without the mkdir
EnsureDir_nomkdir ==
    /\ pc = "exists"
    /\ pc' = "open"
    /\ UNCHANGED <<trimVars, treeVars, genVars, runVars>>

\* if not docs_path.exists(): docs_path.mkdir(parents=True, exist_ok=False)
EnsureDir ==
    /\ pc = "exists"
    /\ \/ /\ dirExists' = TRUE
          /\ pc' = "open"
          /\ UNCHANGED <<out, raised>>
       \/ /\ ~dirExists
          /\ Fail("OSError")
          /\ UNCHANGED dirExists
    /\ UNCHANGED <<trimVars, treeVars, genVars, resolve, cur, doc, files, written, fs0>>

\* open(md_file_path, 'w', encoding='utf-8'): the file is created or truncated
OpenFile ==
    /\ pc = "open"
    /\ \/ /\ files' = (md_file_name(cmds[cur.command].name) :> <<>>) @@ files
          /\ pc' = "write"
          /\ UNCHANGED <<out, raised>>
       \/ /\ Fail("OSError")
          /\ UNCHANGED files
    /\ UNCHANGED <<trimVars, treeVars, genVars, resolve, cur, doc, dirExists, written, fs0>>

\* md_file.write(md_template), and the close of the file
WriteFile ==
    /\ pc = "write"
    /\ \/ /\ files' = (md_file_name(cmds[cur.command].name) :> doc) @@ files
          /\ written' = Append(written, cur.command)
          /\ pc' = "next"
          /\ UNCHANGED <<out, raised>>
       \/ /\ Fail("OSError")
          /\ UNCHANGED <<files, written>>
    /\ UNCHANGED <<trimVars, treeVars, genVars, resolve, cur, doc, dirExists, fs0>>

Next ==
    \/ ImportModule
    \/ GetCommand
    \/ NextNode
    \/ Render
    \/ EnsureDir
    \/ OpenFile
    \/ WriteFile

Spec == Init /\ [][Next]_vars

-----------------------------------------------------------------------------
(* Properties of the normalizer (checked under SpecTrim) *)

\* a blank line: empty, or spaces and tabs only
Blank(line) == \A i \in 1..Len(line) : IsIndentChar(line[i])

HasNonBlankLine(d) == \E i \in 1..Len(splitlines(d)) : ~Blank(splitlines(d)[i])

\* the lines of the input and of the output of the first normalization
InLines == splitlines(data)
OutLines == splitlines(res.val)

\* C4: for a text with at least one non-blank line, the output of
\* trim_docstring has no leading and no trailing blank line, the common
\* leading whitespace of its non-blank lines is 0 columns, and every
\* non-blank output line is the corresponding input line with the same
\* number of leading characters removed.
C4_Normalized ==
    (pc = "again" /\ HasNonBlankLine(data)) =>
        /\ res.val # <<>>
        /\ res.val[Len(res.val)] # "\n"
        /\ ~Blank(OutLines[1])
        /\ ~Blank(OutLines[Len(OutLines)])
        /\ \E k \in 1..Len(OutLines) : ~Blank(OutLines[k]) /\ indentation(OutLines[k]) = 0
        /\ \E c \in 0..MaxLen : \E off \in 0..MaxLen :
               \A k \in 1..Len(OutLines) :
                   ~Blank(OutLines[k]) =>
                       /\ k + off <= Len(InLines)
                       /\ OutLines[k] = SliceFrom(InLines[k + off], c)
                       /\ c <= indentation(InLines[k + off])

\* C5: normalization is idempotent: whenever trim_docstring(x) succeeds,
\* trim_docstring(trim_docstring(x)) succeeds too and equals
\* trim_docstring(x).
C5_Idempotent ==
    pc = "trimmed" => (res2.ok /\ res2.val = res.val)

-----------------------------------------------------------------------------
(* Properties of the walker (checked under SpecWalk) *)

\* the pre-order of a forest: each node, then the pre-order of its
\* sub-commands, then the rest of the forest
RECURSIVE PreOrder(_)
PreOrder(forest) ==
    IF forest = <<>> THEN <<>>
    ELSE <<forest[1]>> \o PreOrder(commands[forest[1]]) \o PreOrder(Tail(forest))

YieldedNodes == [k \in 1..Len(yielded) |-> yielded[k].command]

ParentName(i) == IF ParentOf(i) = 0 THEN <<>> ELSE cmds[ParentOf(i)].name

\* C8: recursive_help yields the descriptors in standard pre-order (root,
\* then each child's whole subtree in the declared child order), every node
\* exactly once, each with the name of its direct parent ('' for the root).
C8_PreOrder ==
    /\ Len(yielded) <= Len(PreOrder(<<1>>))
    /\ YieldedNodes = SubSeq(PreOrder(<<1>>), 1, Len(yielded))
    /\ \A k \in 1..Len(yielded) : yielded[k].parent = ParentName(yielded[k].command)
    /\ pc = "exhausted" =>
           \A i \in Nodes : Cardinality({k \in 1..Len(yielded) : yielded[k].command = i}) = 1

\* C8 witness: a drained walk of a four-node tree whose root has two
\* sub-commands, the first of them with a sub-command of its own and a name
\* other than the root's
C8_Witness ==
    /\ pc = "exhausted"
    /\ Len(yielded) = 4
    /\ Len(commands[1]) = 2
    /\ Len(commands[commands[1][1]]) = 1
    /\ cmds[commands[1][1]].name # cmds[1].name

-----------------------------------------------------------------------------
(* Properties of a run (checked under Spec) *)

\* a name lower-cased, its spaces replaced by hyphens
Sanitized(name) == [i \in 1..Len(name) |-> IF name[i] = " " THEN "-" ELSE Lower(name[i])]

\* <sanitized-name>.md of node i
FileOf(i) == Sanitized(cmds[i].name) \o <<".md">>

DistinctSanitized ==
    \A i, j \in Nodes : i # j => Sanitized(cmds[i].name) # Sanitized(cmds[j].name)

\* the document of a yielded descriptor
DocOf(d) ==
    md_base_template(cmds[d.command].name, trim_docstring(cmds[d.command].help).val,
                     d.usage, options_text(options_dict(d.params)))

\* the descriptor yielded for node i
DctOf(i) == yielded[CHOOSE k \in 1..Len(yielded) : yielded[k].command = i]

\* the destination after the documents of the first k yielded nodes were
\* written over what the run found
RECURSIVE FilesAfter(_)
FilesAfter(k) ==
    IF k = 0 THEN fs0.files
    ELSE (FileOf(yielded[k].command) :> DocOf(yielded[k])) @@ FilesAfter(k - 1)

Ended == pc \in {"returned", "raised"}

LastOut == out[Len(out)]

C2_ResolutionFailure ==
    resolve # "ok" =>
        /\ pc \in {"import", "getattr", "returned"}
        /\ raised = "none"
        /\ stack = <<>> /\ yielded = <<>> /\ written = <<>>
        /\ dirExists = fs0.dirExists
        /\ files = fs0.files
        /\ pc = "returned" =>
               LastOut = (IF resolve = "nomodule" THEN <<"Could not find module">>
                                                  ELSE <<"Could not find command">>)
        /\ (resolve = "noattr" /\ pc = "getattr") => LastOut # <<"Could not find module">>

\* C2 witness: the module is not found, dumps has returned, and the
\* destination directory still does not exist
C2_Witness ==
    /\ resolve = "nomodule"
    /\ pc = "returned"
    /\ ~dirExists

\* the concatenation of format_option over the declared parameters
RECURSIVE AllOptions(_)
AllOptions(params) ==
    IF params = <<>> THEN <<>>
    ELSE format_option(OptionDict(params[1])) \o AllOptions(Tail(params))

Bullets(text) == Cardinality({i \in 1..Len(text) : text[i] = "* '"})

\* C3: the options section of a node's document is format_option's output
\* for every declared parameter in declared order, one bullet per declared
\* parameter, also when two parameters have the same name.
C3_EveryDeclaredOption ==
    pc = "exists" =>
        /\ doc = md_base_template(cmds[cur.command].name,
                                  trim_docstring(cmds[cur.command].help).val,
                                  cur.usage, AllOptions(cur.params))
        /\ Bullets(doc) = Len(cur.params)

\* the statement of C6 as made: after a failure the destination holds the
\* documents of the nodes before the failing one and nothing of the
\* failing node or of a later one
C6_NoFileForFailingNode ==
    (Ended /\ Len(yielded) > Len(written)) =>
        /\ pc = "raised" /\ raised # "none"
        /\ LastOut = <<"Dumps command failed", raised>>
        /\ files = FilesAfter(Len(written))

\* C6 (amended): a failure while a node is rendered or written is reported
\* with its message and re-raised out of dumps, with no retry and no
\* rollback: the nodes before the failing one are all written and their
\* documents stay, nothing is done for a later node, and the failing node
\* gets no document; its file is untouched, or, when the failure came after
\* the file was opened, left created or truncated to no content.
C6_FailureReRaised ==
    (Ended /\ Len(yielded) > Len(written)) =>
        /\ pc = "raised" /\ raised # "none"
        /\ LastOut = <<"Dumps command failed", raised>>
        /\ Len(yielded) = Len(written) + 1
        /\ written = SubSeq(YieldedNodes, 1, Len(written))
        /\ \/ files = FilesAfter(Len(written))
           \/ /\ raised = "OSError"
              /\ files = (FileOf(cur.command) :> <<>>) @@ FilesAfter(Len(written))

\* C6 witness: the write of the second node failed after its file was
\* opened; the first node's document is in the destination
C6_Witness ==
    /\ pc = "raised" /\ raised = "OSError"
    /\ Len(written) = 1 /\ Len(yielded) = 2
    /\ FileOf(cur.command) # FileOf(written[1])
    /\ FileOf(cur.command) \in DOMAIN files
    /\ files[FileOf(cur.command)] = <<>>
    /\ files[FileOf(written[1])] = DocOf(yielded[1])

\* the last node in pre-order whose file name is that of node i
LastColliding(i) ==
    LET pre == PreOrder(<<1>>)
        k == CHOOSE k \in 1..Len(pre) :
                 /\ FileOf(pre[k]) = FileOf(i)
                 /\ \A m \in (k + 1)..Len(pre) : FileOf(pre[m]) # FileOf(i)
    IN  pre[k]

\* C7: when several nodes sanitize to one file name, a run that succeeds
\* raises nothing, leaves one file of that name, and its content is the
\* document of the last of those nodes in pre-order.
C7_LastWriterWins ==
    (pc = "returned" /\ resolve = "ok") =>
        /\ raised = "none"
        /\ LastOut = <<"Created docs">>
        /\ DOMAIN files = DOMAIN fs0.files \cup {FileOf(i) : i \in Nodes}
        /\ \A i \in Nodes : files[FileOf(i)] = DocOf(DctOf(LastColliding(i)))

\* C7 witness: a finished run in which a node named F and a later node
\* named f share the file f.md, which holds the later one's document
C7_Witness ==
    /\ pc = "returned" /\ resolve = "ok"
    /\ \E i, j \in Nodes :
           /\ cmds[i].name = NameF /\ cmds[j].name = Namef
           /\ LastColliding(i) = j
           /\ files[FileOf(i)] = DocOf(DctOf(j))
           /\ DocOf(DctOf(i)) # DocOf(DctOf(j))

\* C9: a description with no non-blank line makes trim_docstring fail, the
\* fault leaves the run, and no document is written for that command.
C9_BlankHelpFails ==
    \A k \in 1..Len(yielded) :
        ~HasNonBlankLine(cmds[yielded[k].command].help) =>
            /\ k = Len(yielded)
            /\ pc \in {"render", "raised"}
            /\ pc = "raised" => raised = "ValueError"
            /\ \A m \in 1..Len(written) : written[m] # yielded[k].command

\* the statement of C10 as made: whenever a node is about to be rendered or
\* has just been rendered, the destination directory exists
C10_DirBeforeRender ==
    pc \in {"render", "exists"} => dirExists

\* C10 (amended): each node is rendered first and only then is the
\* destination directory ensured (created when absent, left alone when
\* present) before the node's file is opened: the directory exists whenever
\* a file is opened or written, it is never removed, and when the rendering
\* of the first node fails the directory is as the run found it, so an
\* absent one is not created.
C10_DirBeforeOpen ==
    /\ (pc \in {"open", "write"} \/ written # <<>>) => dirExists
    /\ fs0.dirExists => dirExists
    /\ (pc \in {"import", "getattr", "next", "render", "exists"} /\ written = <<>>) =>
           dirExists = fs0.dirExists
    /\ (pc = "raised" /\ raised = "ValueError" /\ written = <<>>) =>
           dirExists = fs0.dirExists

\* C10 witness: the rendering of the root failed and the destination
\* directory, absent at the start, was not created
C10_Witness ==
    /\ pc = "raised" /\ raised = "ValueError"
    /\ Len(yielded) = 1
    /\ ~fs0.dirExists /\ ~dirExists

=============================================================================
